---- MODULE Spec2Model ----
(***************************************************************************)
(* A model of the warp/xtra chat relay of src/main.rs:                     *)
(*   - Room, an actor that owns users: HashMap<Uuid, Address<User>> and    *)
(*     handles Join, Leave and GotUserMessage one envelope at a time;      *)
(*   - User, one actor per connection that owns the sending half tx of an  *)
(*     unbounded channel and handles ToUser by tx.send;                    *)
(*   - user_connected, the per-connection handler: it creates the channel  *)
(*     and the User actor, joins, spawns the relay task that drains rx     *)
(*     into the websocket sink, reads inbound frames and finally leaves.   *)
(* Every step between two awaits of one task is one atomic action.         *)
(***************************************************************************)
EXTENDS Naturals, Sequences, FiniteSets

\* Number of connections accepted during a run (each gets a fresh Uuid).
NConn == 3
\* Number of inbound frames, over all connections, that the handlers pass on.
MaxFrames == 2
\* Bound on (connections accepted) * (frames passed on) in a run: with the
\* bounds above, two connections and two frames or three connections and one.
MaxLoad == 4

Conns == 1..NConn

\* What user_ws_rx.next() can yield as Ok(msg): a text frame with a non-empty
\* payload, a text frame with an empty payload, or a frame that is no text.
FrameKinds == {"text", "empty", "binary"}

NoText == [src |-> 0, seq |-> 0, kind |-> "none"]

VARIABLES
    pc,         \* user_connected: position of each connection handler
    resp,       \* user_connected: outcome of the pending room.send(..).await
    nread,      \* number of frames each connection has passed on to the Room
    closedBy,   \* how the inbound loop ended, while the handler is leaving
    mailbox,    \* Room: envelopes sent to the Room address, in arrival order
    users,      \* Room.users: identities that map to an Address<User>
    room,       \* Room: the state of the manage loop and of the handler in it
    userSt,     \* User actor of each connection
    userBox,    \* User: the ToUser envelope waiting in the actor's mailbox
    relay,      \* the task spawned at main.rs:128 (owner of rx)
    queue,      \* the unbounded channel tx -> rx of each connection
    sink,       \* the texts the relay has handed to user_ws_tx.send, in order
    enq,        \* history: every text tx.send accepted, per connection
    due,        \* history: every text a processed broadcast owed a connection
    joinDone,   \* history: identities whose Join the Room has handled
    leaveDone,  \* history: identities whose Leave the Room has handled
    leaveSent,  \* history: number of Leave envelopes each handler has sent
    passed,     \* history: identities a broadcast was handled after their Leave
    nstray,     \* history: number of Leave envelopes sent by no handler
    skipped     \* history: kinds of the frames the inbound loops did not pass on

vars == <<pc, resp, nread, closedBy, mailbox, users, room, userSt, userBox,
          relay, queue, sink, enq, due, joinDone, leaveDone, leaveSent,
          passed, nstray, skipped>>

connVars == <<pc, resp, nread, closedBy, leaveSent>>
roomVars == <<mailbox, users, room, joinDone, leaveDone, due, passed>>
userVars == <<userSt, userBox>>
chanVars == <<relay, queue, sink, enq>>

RECURSIVE Total(_, _)
Total(f, n) == IF n = 0 THEN 0 ELSE f[n] + Total(f, n - 1)

Accepted == Cardinality({c \in Conns : pc[c] # "new"})

RoomIdle == [st |-> "idle", msg |-> NoText, todo |-> {}, to |-> 0]

Init ==
    /\ pc = [c \in Conns |-> "new"]
    /\ resp = [c \in Conns |-> "none"]
    /\ nread = [c \in Conns |-> 0]
    /\ closedBy = [c \in Conns |-> "open"]
    /\ mailbox = <<>>
    /\ users = {}
    /\ room = RoomIdle
    /\ userSt = [c \in Conns |-> "none"]
    /\ userBox = [c \in Conns |-> NoText]
    /\ relay = [c \in Conns |-> "none"]
    /\ queue = [c \in Conns |-> <<>>]
    /\ sink = [c \in Conns |-> <<>>]
    /\ enq = [c \in Conns |-> <<>>]
    /\ due = [c \in Conns |-> <<>>]
    /\ joinDone = {}
    /\ leaveDone = {}
    /\ leaveSent = [c \in Conns |-> 0]
    /\ passed = {}
    /\ nstray = 0
    /\ skipped = {}

(***************************************************************************)
(* Room: the three handlers as functions of the mapping                    *)
(***************************************************************************)

\* A Join that replaces the mapping instead of adding to it.
JoinHandleReplace(us, id) == {id}

\* main.rs:76  self.users.insert(msg.0, msg.1)
JoinHandle(us, id) == us \cup {id}

\* A Leave that removes nothing.
LeaveHandleKeep(us, id) == us

\* A Leave that empties the mapping when its identity is not a member.
LeaveHandleClear(us, id) == IF id \in us THEN us \ {id} ELSE {}

\* main.rs:90  self.users.remove(&msg.0)
LeaveHandle(us, id) == us \ {id}

\* A fan-out that does not pass over the sender.
RecipientsAll(us, sender) == us

\* A fan-out whose test is inverted.
RecipientsInverted(us, sender) == us \cap {sender}

\* main.rs:56-59  the entries of the iteration that pass `id != &msg.0`
Recipients(us, sender) == us \ {sender}

\* A conversion that refuses a text frame with an empty payload.
ToStrOkNonEmpty(kind) == kind = "text"

\* main.rs:150  msg.to_str() is Ok exactly for a text frame, whatever its length
ToStrOk(kind) == kind \in {"text", "empty"}

\* tx.send succeeds while the receiving half rx has not been dropped: rx is a
\* local of user_connected until the relay task takes it, and lives in the
\* relay task until that task ends.
RxAlive(c) == relay[c] \in {"none", "running", "writing", "failed"}

\* An xtra address delivers while the actor behind it is running.
UserRunning(c) == userSt[c] = "alive"

\* An envelope in the Room's mailbox: the message (Join(id, addr), Leave(id) or
\* GotUserMessage(id, text)) and the task that awaits its result.
Envelope(k, c, t, f) == [kind |-> k, id |-> c, text |-> t, from |-> f]

Pending(c) == \E i \in 1..Len(mailbox) : mailbox[i].from = c

\* The result of a handled envelope goes back to the task that awaits it.
Reply(e) == IF e.from \in Conns THEN [resp EXCEPT ![e.from] = "ok"] ELSE resp

\* room.send(..): the envelope enters the Room's mailbox, or the send resolves
\* to Err(Disconnected) when the Room actor no longer runs.
Submit(c, k, t) ==
    IF room.st = "dead"
    THEN /\ resp' = [resp EXCEPT ![c] = "err"]
         /\ mailbox' = mailbox
    ELSE /\ resp' = [resp EXCEPT ![c] = "none"]
         /\ mailbox' = Append(mailbox, Envelope(k, c, t, c))

(***************************************************************************)
(* user_connected                                                          *)
(***************************************************************************)

\* main.rs:107 and 117-123: a connection is accepted (the limit-th at most);
\* user_connected splits the socket, creates the channel and the User actor,
\* sends Join and awaits it.
Accept(c, limit) ==
    /\ UNCHANGED <<nstray, skipped>>
    /\ pc[c] = "new"
    /\ Accepted < limit
    /\ (Accepted + 1) * Total(nread, NConn) <= MaxLoad
    /\ pc' = [pc EXCEPT ![c] = "joining"]
    /\ userSt' = [userSt EXCEPT ![c] = "alive"]
    /\ Submit(c, "join", NoText)
    /\ UNCHANGED <<nread, closedBy, leaveSent, users, room, joinDone, leaveDone,
                   due, passed, userBox, chanVars>>

\* main.rs:123-138: the Join await resolves; on Ok the relay task is spawned and
\* the inbound loop starts, on Err the expect panics (the Join envelope, and
\* with it the only address of the User actor, is gone; rx is dropped).
JoinReturn(c) ==
    /\ UNCHANGED <<nstray, skipped>>
    /\ pc[c] = "joining"
    /\ resp[c] # "none"
    /\ IF resp[c] = "ok"
       THEN /\ pc' = [pc EXCEPT ![c] = "active"]
            /\ relay' = [relay EXCEPT ![c] = "running"]
            /\ userSt' = userSt
       ELSE /\ pc' = [pc EXCEPT ![c] = "panicked"]
            /\ relay' = [relay EXCEPT ![c] = "aborted"]
            /\ userSt' = [userSt EXCEPT ![c] = "stopped"]
    /\ resp' = [resp EXCEPT ![c] = "none"]
    /\ UNCHANGED <<nread, closedBy, leaveSent, roomVars, userBox, queue, sink, enq>>

\* An inbound loop that sends GotUserMessage without awaiting its result
\* (do_send in the place of send(..).await) and reads on.
ReadFrameNoAwait(c, kind) ==
    /\ UNCHANGED nstray
    /\ pc[c] = "active"
    /\ Total(nread, NConn) < MaxFrames
    /\ Accepted * (Total(nread, NConn) + 1) <= MaxLoad
    /\ IF ToStrOk(kind)
       THEN /\ nread' = [nread EXCEPT ![c] = @ + 1]
            /\ Submit(c, "bcast", [src |-> c, seq |-> nread[c] + 1, kind |-> kind])
            /\ UNCHANGED skipped
       ELSE /\ skipped' = skipped \cup {kind}
            /\ UNCHANGED <<nread, resp, mailbox>>
    /\ UNCHANGED <<pc, closedBy, leaveSent, users, room, joinDone, leaveDone, due,
                   passed, userVars, chanVars>>

\* main.rs:141-154: the stream yields Ok(msg); a message whose to_str() is Ok is
\* sent to the Room as GotUserMessage(id, s) and awaited, any other is skipped.
ReadFrame(c, kind) ==
    /\ UNCHANGED nstray
    /\ pc[c] = "active"
    /\ Total(nread, NConn) < MaxFrames
    /\ Accepted * (Total(nread, NConn) + 1) <= MaxLoad
    /\ IF ToStrOk(kind)
       THEN /\ pc' = [pc EXCEPT ![c] = "sending"]
            /\ nread' = [nread EXCEPT ![c] = @ + 1]
            /\ Submit(c, "bcast", [src |-> c, seq |-> nread[c] + 1, kind |-> kind])
            /\ UNCHANGED skipped
       ELSE /\ skipped' = skipped \cup {kind}
            /\ UNCHANGED <<pc, nread, resp, mailbox>>
    /\ UNCHANGED <<closedBy, leaveSent, users, room, joinDone, leaveDone, due,
                   passed, userVars, chanVars>>

\* main.rs:151-153: the GotUserMessage await resolves.
SendReturn(c) ==
    /\ UNCHANGED <<nstray, skipped>>
    /\ pc[c] = "sending"
    /\ resp[c] # "none"
    /\ pc' = [pc EXCEPT ![c] = IF resp[c] = "ok" THEN "active" ELSE "panicked"]
    /\ resp' = [resp EXCEPT ![c] = "none"]
    /\ UNCHANGED <<nread, closedBy, leaveSent, roomVars, userVars, chanVars>>

\* An end of the stream that returns from user_connected without a Leave.
ReadEndReturn(c) ==
    /\ UNCHANGED <<nstray, skipped>>
    /\ pc[c] = "active"
    /\ pc' = [pc EXCEPT ![c] = "done"]
    /\ UNCHANGED <<resp, nread, closedBy, leaveSent, roomVars, userVars, chanVars>>

\* main.rs:141 and 157: the stream yields None, the loop ends, Leave is sent.
ReadEnd(c) ==
    /\ UNCHANGED <<nstray, skipped>>
    /\ pc[c] = "active"
    /\ pc' = [pc EXCEPT ![c] = "leaving"]
    /\ closedBy' = [closedBy EXCEPT ![c] = "end"]
    /\ leaveSent' = [leaveSent EXCEPT ![c] = @ + 1]
    /\ Submit(c, "leave", NoText)
    /\ UNCHANGED <<nread, users, room, joinDone, leaveDone, due, passed, userVars,
                   chanVars>>

\* An inbound error that returns from user_connected instead of breaking.
ReadErrReturn(c) ==
    /\ UNCHANGED <<nstray, skipped>>
    /\ pc[c] = "active"
    /\ pc' = [pc EXCEPT ![c] = "done"]
    /\ closedBy' = [closedBy EXCEPT ![c] = "error"]
    /\ UNCHANGED <<resp, nread, leaveSent, roomVars, userVars, chanVars>>

\* An inbound error that is unwrapped: the handler panics where it stands.
ReadErrPanic(c) ==
    /\ UNCHANGED <<nstray, skipped>>
    /\ pc[c] = "active"
    /\ pc' = [pc EXCEPT ![c] = "panicked"]
    /\ closedBy' = [closedBy EXCEPT ![c] = "error"]
    /\ UNCHANGED <<resp, nread, leaveSent, roomVars, userVars, chanVars>>

\* main.rs:144-146 and 157: the stream yields Err, break, Leave is sent.
ReadErr(c) ==
    /\ UNCHANGED <<nstray, skipped>>
    /\ pc[c] = "active"
    /\ pc' = [pc EXCEPT ![c] = "leaving"]
    /\ closedBy' = [closedBy EXCEPT ![c] = "error"]
    /\ leaveSent' = [leaveSent EXCEPT ![c] = @ + 1]
    /\ Submit(c, "leave", NoText)
    /\ UNCHANGED <<nread, users, room, joinDone, leaveDone, due, passed, userVars,
                   chanVars>>

\* main.rs:157-160: the Leave await resolves and user_connected returns.
LeaveReturn(c) ==
    /\ UNCHANGED <<nstray, skipped>>
    /\ pc[c] = "leaving"
    /\ resp[c] # "none"
    /\ pc' = [pc EXCEPT ![c] = IF resp[c] = "ok" THEN "done" ELSE "panicked"]
    /\ resp' = [resp EXCEPT ![c] = "none"]
    /\ closedBy' = [closedBy EXCEPT ![c] = "open"]
    /\ UNCHANGED <<nread, leaveSent, roomVars, userVars, chanVars>>

(***************************************************************************)
(* Room                                                                    *)
(***************************************************************************)

\* The Room actor (or its handler) panics: the actor and its mapping are
\* dropped, every address in the mapping with it, and every request that is
\* pending or in the mailbox resolves to Err(Disconnected).
RoomPanics ==
    /\ room' = [RoomIdle EXCEPT !.st = "dead"]
    /\ mailbox' = <<>>
    /\ users' = {}
    /\ resp' = [c \in Conns |->
                  IF Pending(c) \/ (pc[c] = "sending" /\ resp[c] = "none")
                  THEN "err" ELSE resp[c]]
    /\ userSt' = [c \in Conns |->
                    IF c \in users /\ userSt[c] = "alive" THEN "stopped" ELSE userSt[c]]

\* main.rs:56-64: the for loop from where it stands to its next await. The
\* HashMap iterates in an arbitrary order; entries equal to the sender are
\* passed over; the first other entry gets ToUser(text) and the handler awaits
\* the answer. With no entry left the handler returns and the sender's
\* room.send resolves.
FanOut(m, todo) ==
    IF Recipients(todo, m.src) = {}
    THEN /\ room' = RoomIdle
         /\ resp' = [resp EXCEPT ![m.src] = "ok"]
         /\ UNCHANGED <<users, userSt, userBox>>
    ELSE \E r \in Recipients(todo, m.src) :
           IF UserRunning(r)
           THEN /\ room' = [st |-> "await", msg |-> m, todo |-> todo \ {r}, to |-> r]
                /\ userBox' = [userBox EXCEPT ![r] = m]
                /\ UNCHANGED <<resp, users, userSt>>
           ELSE /\ RoomPanics
                /\ UNCHANGED userBox

\* main.rs:74-79: the manage loop takes a Join envelope and handles it.
RoomJoin ==
    /\ UNCHANGED <<nstray, skipped>>
    /\ room.st = "idle"
    /\ mailbox # <<>>
    /\ Head(mailbox).kind = "join"
    /\ mailbox' = Tail(mailbox)
    /\ users' = JoinHandle(users, Head(mailbox).id)
    /\ joinDone' = joinDone \cup {Head(mailbox).id}
    /\ resp' = Reply(Head(mailbox))
    /\ UNCHANGED <<pc, nread, closedBy, leaveSent, room, leaveDone, due, passed,
                   userVars, chanVars>>

\* A Leave that is handled as soon as it arrives, whatever handler the Room is
\* in (the mapping behind a lock shared by concurrent handlers).
RoomLeaveEager ==
    /\ UNCHANGED <<nstray, skipped>>
    /\ room.st # "dead"
    /\ mailbox # <<>>
    /\ Head(mailbox).kind = "leave"
    /\ mailbox' = Tail(mailbox)
    /\ users' = LeaveHandle(users, Head(mailbox).id)
    /\ leaveDone' = leaveDone \cup {Head(mailbox).id}
    /\ resp' = Reply(Head(mailbox))
    /\ userSt' = [c \in Conns |->
                    IF c \in users \ users' /\ userSt[c] = "alive"
                    THEN "stopped" ELSE userSt[c]]
    /\ UNCHANGED <<pc, nread, closedBy, leaveSent, room, joinDone, due, passed,
                   userBox, chanVars>>

\* main.rs:87-92: the manage loop takes a Leave envelope and handles it. The
\* removed Address<User> is dropped; it was the last address of that actor,
\* which stops and drops tx (the relay sees it at its next rx.next()).
RoomLeave ==
    /\ UNCHANGED <<nstray, skipped>>
    /\ room.st = "idle"
    /\ mailbox # <<>>
    /\ Head(mailbox).kind = "leave"
    /\ mailbox' = Tail(mailbox)
    /\ users' = LeaveHandle(users, Head(mailbox).id)
    /\ leaveDone' = leaveDone \cup {Head(mailbox).id}
    /\ resp' = Reply(Head(mailbox))
    /\ userSt' = [c \in Conns |->
                    IF c \in users \ users' /\ userSt[c] = "alive"
                    THEN "stopped" ELSE userSt[c]]
    /\ UNCHANGED <<pc, nread, closedBy, leaveSent, room, joinDone, due, passed,
                   userBox, chanVars>>

\* main.rs:54-66: the manage loop takes a GotUserMessage envelope and runs the
\* handler up to its first await.
RoomBroadcast ==
    /\ UNCHANGED <<nstray, skipped>>
    /\ room.st = "idle"
    /\ mailbox # <<>>
    /\ Head(mailbox).kind = "bcast"
    /\ mailbox' = Tail(mailbox)
    /\ due' = [c \in Conns |->
                 IF c \in users /\ c # Head(mailbox).id
                 THEN Append(due[c], Head(mailbox).text) ELSE due[c]]
    /\ passed' = passed \cup leaveDone
    /\ FanOut(Head(mailbox).text, users)
    /\ UNCHANGED <<pc, nread, closedBy, leaveSent, joinDone, leaveDone, chanVars>>

\* main.rs:60-62: the awaited addr.send(ToUser) has resolved. Ok: the loop goes
\* on; Err(Disconnected): the expect panics.
RoomResume ==
    /\ UNCHANGED <<nstray, skipped>>
    /\ room.st \in {"acked", "failed"}
    /\ IF room.st = "acked"
       THEN /\ FanOut(room.msg, room.todo)
            /\ UNCHANGED mailbox
       ELSE /\ RoomPanics
            /\ UNCHANGED userBox
    /\ UNCHANGED <<pc, nread, closedBy, leaveSent, joinDone, leaveDone, due, passed,
                   chanVars>>

(***************************************************************************)
(* User                                                                    *)
(***************************************************************************)

\* A User actor that hands the text over only when the relay is ready to take
\* it (a channel without a buffer): the handler waits for the transport.
UserHandleBlocking(c) ==
    /\ UNCHANGED <<nstray, skipped>>
    /\ userSt[c] = "alive"
    /\ userBox[c] # NoText
    /\ room.st = "await"
    /\ room.to = c
    /\ RxAlive(c) => (relay[c] = "running" /\ queue[c] = <<>>)
    /\ userBox' = [userBox EXCEPT ![c] = NoText]
    /\ IF RxAlive(c)
       THEN /\ queue' = [queue EXCEPT ![c] = Append(@, userBox[c])]
            /\ enq' = [enq EXCEPT ![c] = Append(@, userBox[c])]
            /\ room' = [room EXCEPT !.st = "acked"]
            /\ userSt' = userSt
       ELSE /\ UNCHANGED <<queue, enq>>
            /\ room' = [room EXCEPT !.st = "failed"]
            /\ userSt' = [userSt EXCEPT ![c] = "panicked"]
    /\ UNCHANGED <<connVars, mailbox, users, joinDone, leaveDone, due, passed, relay,
                   sink>>

\* A User actor whose handler awaits the Room before it returns (it reports
\* the delivery with room.send(..).await): the Room, suspended on this very
\* handler, never takes that request.
UserHandleAwaitsRoom(c) ==
    /\ UNCHANGED <<nstray, skipped>>
    /\ userSt[c] = "alive"
    /\ userBox[c] # NoText
    /\ room.st = "idle"
    /\ room.to = c
    /\ userBox' = [userBox EXCEPT ![c] = NoText]
    /\ queue' = [queue EXCEPT ![c] = Append(@, userBox[c])]
    /\ enq' = [enq EXCEPT ![c] = Append(@, userBox[c])]
    /\ room' = [room EXCEPT !.st = "acked"]
    /\ UNCHANGED <<connVars, mailbox, users, joinDone, leaveDone, due, passed, relay,
                   sink, userSt>>

\* main.rs:29-33: the User actor handles ToUser: tx.send(msg.0). Ok: the text
\* is in the channel and the Room's await resolves to Ok(()). Err (rx was
\* dropped): the expect panics, the actor is gone and the Room's await
\* resolves to Err(Disconnected).
UserHandle(c) ==
    /\ UNCHANGED <<nstray, skipped>>
    /\ userSt[c] = "alive"
    /\ userBox[c] # NoText
    /\ room.st = "await"
    /\ room.to = c
    /\ userBox' = [userBox EXCEPT ![c] = NoText]
    /\ IF RxAlive(c)
       THEN /\ queue' = [queue EXCEPT ![c] = Append(@, userBox[c])]
            /\ enq' = [enq EXCEPT ![c] = Append(@, userBox[c])]
            /\ room' = [room EXCEPT !.st = "acked"]
            /\ userSt' = userSt
       ELSE /\ UNCHANGED <<queue, enq>>
            /\ room' = [room EXCEPT !.st = "failed"]
            /\ userSt' = [userSt EXCEPT ![c] = "panicked"]
    /\ UNCHANGED <<connVars, mailbox, users, joinDone, leaveDone, due, passed, relay,
                   sink>>

\* A sending half that outlives the User actor (a clone of tx kept elsewhere).
TxHeld(c) == FALSE

\* The channel yields None to rx.next() once every sender is gone.
TxDropped(c) == userSt[c] \in {"stopped", "panicked"}

(***************************************************************************)
(* The relay task                                                          *)
(***************************************************************************)

\* A relay that takes the newest queued text first.
RelayTakeLast(c) ==
    /\ UNCHANGED <<nstray, skipped>>
    /\ relay[c] = "running"
    /\ queue[c] # <<>>
    /\ queue' = [queue EXCEPT ![c] = SubSeq(@, 1, Len(@) - 1)]
    /\ sink' = [sink EXCEPT ![c] = Append(@, queue[c][Len(queue[c])])]
    /\ relay' = [relay EXCEPT ![c] = "writing"]
    /\ UNCHANGED <<connVars, roomVars, userVars, enq>>

\* main.rs:129-132: rx.next() yields the oldest queued text and the task starts
\* user_ws_tx.send(message).
RelayTake(c) ==
    /\ UNCHANGED <<nstray, skipped>>
    /\ relay[c] = "running"
    /\ queue[c] # <<>>
    /\ queue' = [queue EXCEPT ![c] = Tail(@)]
    /\ sink' = [sink EXCEPT ![c] = Append(@, Head(queue[c]))]
    /\ relay' = [relay EXCEPT ![c] = "writing"]
    /\ UNCHANGED <<connVars, roomVars, userVars, enq>>

\* main.rs:131-136: the write completes. Ok: the loop goes back to rx.next().
\* Err: the closure given to unwrap_or_else is run with the error.
RelayWritten(c, ok) ==
    /\ UNCHANGED <<nstray, skipped>>
    /\ relay[c] = "writing"
    /\ relay' = [relay EXCEPT ![c] = IF ok THEN "running" ELSE "failed"]
    /\ UNCHANGED <<connVars, roomVars, userVars, queue, sink, enq>>

\* A relay that gives up at the first failed write (`?` or expect in the place
\* of unwrap_or_else): the task ends and drops rx.
RelayLogStop(c) ==
    /\ UNCHANGED <<nstray, skipped>>
    /\ relay[c] = "failed"
    /\ relay' = [relay EXCEPT ![c] = "done"]
    /\ UNCHANGED <<connVars, roomVars, userVars, queue, sink, enq>>

\* main.rs:133-135: the closure prints the error to stderr and yields (); the
\* loop goes back to rx.next().
RelayLog(c) ==
    /\ UNCHANGED <<nstray, skipped>>
    /\ relay[c] = "failed"
    /\ relay' = [relay EXCEPT ![c] = "running"]
    /\ UNCHANGED <<connVars, roomVars, userVars, queue, sink, enq>>

\* A relay that ends as soon as it finds the channel empty (a loop over
\* try_recv in the place of the awaited next).
RelayEndEarly(c) ==
    /\ UNCHANGED <<nstray, skipped>>
    /\ relay[c] = "running"
    /\ queue[c] = <<>>
    /\ relay' = [relay EXCEPT ![c] = "done"]
    /\ UNCHANGED <<connVars, roomVars, userVars, queue, sink, enq>>

\* main.rs:129: rx.next() yields None (the channel is empty and tx is gone);
\* the task ends and drops rx and user_ws_tx.
RelayEnd(c) ==
    /\ UNCHANGED <<nstray, skipped>>
    /\ relay[c] = "running"
    /\ queue[c] = <<>>
    /\ TxDropped(c)
    /\ relay' = [relay EXCEPT ![c] = "done"]
    /\ UNCHANGED <<connVars, roomVars, userVars, queue, sink, enq>>

(***************************************************************************)
(* Specifications                                                          *)
(***************************************************************************)

Connect(c) == Accept(c, NConn)

\* Every step of the program but the acceptance of a connection.
Serve ==
    \/ \E c \in Conns : JoinReturn(c)
    \/ \E c \in Conns, k \in FrameKinds : ReadFrame(c, k)
    \/ \E c \in Conns : SendReturn(c)
    \/ \E c \in Conns : ReadEnd(c)
    \/ \E c \in Conns : ReadErr(c)
    \/ \E c \in Conns : LeaveReturn(c)
    \/ RoomJoin
    \/ RoomLeave
    \/ RoomBroadcast
    \/ RoomResume
    \/ \E c \in Conns : UserHandle(c)
    \/ \E c \in Conns : RelayTake(c)
    \/ \E c \in Conns, ok \in BOOLEAN : RelayWritten(c, ok)
    \/ \E c \in Conns : RelayLog(c)
    \/ \E c \in Conns : RelayEnd(c)

Next == (\E c \in Conns : Connect(c)) \/ Serve

Spec == Init /\ [][Next]_vars

\* The tokio runtime and the xtra manage loops run every task that is ready:
\* each step of the Room, of a User actor, of a relay task and each resumption
\* of a handler is taken once it stays possible. What the clients do (connect,
\* send a frame, close) is under no such obligation.
Fairness ==
    /\ WF_vars(RoomJoin)
    /\ WF_vars(RoomLeave)
    /\ WF_vars(RoomBroadcast)
    /\ WF_vars(RoomResume)
    /\ \A c \in Conns :
         /\ WF_vars(JoinReturn(c))
         /\ WF_vars(SendReturn(c))
         /\ WF_vars(LeaveReturn(c))
         /\ WF_vars(UserHandle(c))
         /\ WF_vars(RelayTake(c))
         /\ WF_vars(\E ok \in BOOLEAN : RelayWritten(c, ok))
         /\ WF_vars(RelayLog(c))
         /\ WF_vars(RelayEnd(c))

\* Number of connections accepted in a run of LiveSpec and of RoomSpec.
MaxAccept == 2

LiveNext == (\E c \in Conns : Accept(c, MaxAccept)) \/ Serve

LiveSpec == Init /\ [][LiveNext]_vars /\ Fairness

\* The connection whose transport may take a write and never complete it.
Stalled == 1

\* Fairness as above, but for the write of the relay of Stalled: the await of
\* user_ws_tx.send(message) at main.rs:131-136 may stay pending for ever.
StallFairness ==
    /\ WF_vars(RoomJoin)
    /\ WF_vars(RoomLeave)
    /\ WF_vars(RoomBroadcast)
    /\ WF_vars(RoomResume)
    /\ \A c \in Conns :
         /\ WF_vars(JoinReturn(c))
         /\ WF_vars(SendReturn(c))
         /\ WF_vars(LeaveReturn(c))
         /\ WF_vars(UserHandle(c))
         /\ WF_vars(RelayTake(c))
         /\ WF_vars(RelayLog(c))
         /\ WF_vars(RelayEnd(c))
    /\ \A c \in Conns \ {Stalled} :
         WF_vars(\E ok \in BOOLEAN : RelayWritten(c, ok))

StallSpec == Init /\ [][LiveNext]_vars /\ StallFairness

(***************************************************************************)
(* The Room as an actor open to every holder of its address: besides the   *)
(* handlers of this program, a holder may send Leave(id) for any id.       *)
(***************************************************************************)

\* Number of Leave envelopes from outside the handlers in a run.
MaxStray == 1

\* room.send(Leave(id)) by a holder of the Room address other than the
\* handler of connection id; nobody in the model awaits its result.
StrayLeave(c) ==
    /\ UNCHANGED skipped
    /\ room.st # "dead"
    /\ nstray < MaxStray
    /\ nstray' = nstray + 1
    /\ mailbox' = Append(mailbox, Envelope("leave", c, NoText, 0))
    /\ UNCHANGED <<connVars, users, room, joinDone, leaveDone, due, passed, userVars,
                   chanVars>>

RoomNext ==
    \/ \E c \in Conns : Accept(c, MaxAccept)
    \/ Serve
    \/ \E c \in Conns : StrayLeave(c)

RoomSpec == Init /\ [][RoomNext]_vars

(***************************************************************************)
(* The program under a fault of its environment: a relay task is torn down *)
(* while its connection is a member (the receiving half rx is dropped).    *)
(***************************************************************************)

\* The relay task of c ends abnormally; rx and what it still held are dropped.
RelayAbort(c) ==
    /\ UNCHANGED <<nstray, skipped>>
    /\ relay[c] \in {"running", "writing", "failed"}
    /\ relay' = [relay EXCEPT ![c] = "aborted"]
    /\ queue' = [queue EXCEPT ![c] = <<>>]
    /\ UNCHANGED <<connVars, roomVars, userVars, sink, enq>>

FaultNext == Next \/ \E c \in Conns : RelayAbort(c)

FaultSpec == Init /\ [][FaultNext]_vars

(***************************************************************************)
(* Properties                                                              *)
(***************************************************************************)

IsPrefix(a, b) == Len(a) <= Len(b) /\ \A i \in 1..Len(a) : a[i] = b[i]

Other(c) == Conns \ {c}

LeavesOf(c) ==
    Len(SelectSeq(mailbox, LAMBDA e : e.kind = "leave" /\ e.from = c))

\* C1 (no self-delivery): no text that connection c broadcast is ever handed
\* to c's own User actor, accepted by c's own channel, or written to c's sink.
NoSelfDelivery ==
    \A c \in Conns :
        /\ userBox[c].src # c
        /\ \A i \in 1..Len(enq[c]) : enq[c][i].src # c
        /\ \A i \in 1..Len(queue[c]) : queue[c][i].src # c
        /\ \A i \in 1..Len(sink[c]) : sink[c][i].src # c

\* A broadcast of c has been handled to its end while c and another
\* connection were members: the other one got the text, c got nothing.
NoSelfDeliveryWitness ==
    \E c \in Conns : \E d \in Other(c) :
        /\ room.st = "idle"
        /\ {c, d} \subseteq users
        /\ Len(enq[d]) >= 1
        /\ enq[d][1].src = c
        /\ enq[c] = <<>>

JoinLeaveConsistency ==
    /\ users = joinDone \ leaveDone
    /\ leaveDone \subseteq joinDone

\* Every connection has joined, one has left again and the others have not.
JoinLeaveConsistencyWitness ==
    \E d \in Conns :
        /\ joinDone = Conns
        /\ leaveDone = {d}
        /\ users = Other(d)

\* C4 (Leave exactly once): a handler that has not left its inbound loop has
\* sent no Leave; one whose loop has ended, by the end of the stream or by an
\* error, has sent exactly one, which waits in the Room's mailbox or has been
\* handled; and every handler that has stopped has gone through that step.
LeaveExactlyOnce ==
    \A c \in Conns :
        /\ pc[c] \in {"new", "joining", "active", "sending", "leaving", "done"}
        /\ pc[c] \in {"new", "joining", "active", "sending"} =>
              leaveSent[c] = 0 /\ LeavesOf(c) = 0 /\ c \notin leaveDone
        /\ pc[c] \in {"leaving", "done"} =>
              /\ leaveSent[c] = 1
              /\ LeavesOf(c) + (IF c \in leaveDone THEN 1 ELSE 0) = 1
        /\ closedBy[c] # "open" <=> pc[c] = "leaving"

\* One handler has left its loop at the end of the stream and another on an
\* error; the Leave of each waits in the Room's mailbox.
LeaveExactlyOnceWitness ==
    \E c \in Conns : \E d \in Other(c) :
        /\ closedBy[c] = "end"
        /\ closedBy[d] = "error"
        /\ LeavesOf(c) = 1
        /\ LeavesOf(d) = 1

\* C5 (failure isolation), as the claim states it: the Room never stops on a
\* failed enqueue, and after each broadcast every recipient whose channel is
\* intact has the text.
FailureIsolation ==
    /\ room.st # "dead"
    /\ room.st = "idle" => \A c \in Conns : RxAlive(c) => enq[c] = due[c]

\* C6 (no delivery after removal): once the Room has handled Leave(c), no
\* step hands a text to c's User actor or appends one to c's channel; every
\* text is enqueued for a connection that is in the mapping.
NoDeliveryAfterLeave ==
    [][\A c \in Conns :
         (enq'[c] # enq[c] \/ (userBox'[c] # userBox[c] /\ userBox'[c] # NoText))
             => (c \in users /\ c \notin leaveDone)]_vars

\* A connection joined and left without receiving anything, and a broadcast
\* was handled to its end after that.
NoDeliveryAfterLeaveWitness ==
    \E c \in Conns :
        /\ c \in passed
        /\ room.st = "idle"
        /\ enq[c] = <<>>
        /\ \E d \in Other(c) : nread[d] >= 1 /\ pc[d] = "active"

\* C7 (ordering): what a connection's relay has handed to the sink, followed
\* by what still waits in the channel, is what the channel accepted, in that
\* order; and two texts of one sender reach a sink in the order sent.
Ordering ==
    \A c \in Conns :
        /\ sink[c] \o queue[c] = enq[c]
        /\ \A i, j \in 1..Len(sink[c]) :
              (i < j /\ sink[c][i].src = sink[c][j].src)
                  => sink[c][i].seq < sink[c][j].seq

\* A sink has received two texts of one sender, the first before the second.
OrderingWitness ==
    \E c \in Conns :
        /\ Len(sink[c]) = 2
        /\ sink[c][1].src = sink[c][2].src
        /\ sink[c][1].seq = 1
        /\ sink[c][2].seq = 2

\* C8 (Leave isolation): when the Room handles Leave(id) for an id that is not
\* in the mapping, the mapping and the User actors stay as they are, the Room
\* is ready for its next envelope and a handler that awaits the Leave gets Ok.
LeaveIsolation ==
    [][(/\ room.st = "idle"
        /\ mailbox # <<>>
        /\ Head(mailbox).kind = "leave"
        /\ Head(mailbox).id \notin users
        /\ mailbox' = Tail(mailbox))
            => (/\ users' = users
                /\ userSt' = userSt
                /\ room' = room
                /\ \A c \in Conns : Head(mailbox).from = c => resp'[c] = "ok")]_vars

\* The Room has handled a Leave for an identity that never joined, and then
\* the Join of another connection.
LeaveIsolationWitness ==
    \E c \in Conns : \E d \in Other(c) :
        /\ c \in leaveDone \ joinDone
        /\ pc[c] = "new"
        /\ users = {d}
        /\ room.st = "idle"

\* C9 (cancellation): once the inbound loop of a connection has ended, its
\* handler returns, the Room drops the member and the relay task ends.
Cancellation ==
    \A c \in Conns :
        (pc[c] = "leaving") ~>
            (pc[c] = "done" /\ c \notin users /\ relay[c] = "done")

\* A connection that received a text has closed; handler and relay are done.
CancellationWitness ==
    \E c \in Conns :
        /\ pc[c] = "done"
        /\ c \in leaveDone
        /\ relay[c] = "done"
        /\ Len(sink[c]) >= 1

\* C10 (transport error isolation): the step in which a handler sees an error
\* on its inbound stream sends that connection's Leave and changes nothing
\* else: not the mapping, not the Room, no other handler, no User actor, no
\* channel and no relay.
TransportErrorIsolation ==
    [][\A c \in Conns :
         (closedBy[c] = "open" /\ closedBy'[c] = "error") =>
            /\ pc'[c] = "leaving"
            /\ mailbox' = Append(mailbox, Envelope("leave", c, NoText, c))
            /\ \A d \in Other(c) : pc'[d] = pc[d] /\ resp'[d] = resp[d]
            /\ UNCHANGED <<users, room, userVars, chanVars>>]_vars

\* After an error on one connection the other is still a member, its handler
\* is in its inbound loop, its relay runs and the Room has handled the Leave.
TransportErrorIsolationWitness ==
    \E c \in Conns : \E d \in Other(c) :
        /\ closedBy[c] = "error"
        /\ leaveDone = {c}
        /\ d \in users
        /\ pc[d] = "active"
        /\ relay[d] = "running"
        /\ room.st = "idle"

\* The requests of kind Broadcast that wait in the Room's mailbox.
Broadcasts == {i \in 1..Len(mailbox) : mailbox[i].kind = "bcast"}

\* C18 (frame filtering), as the claim states it: a frame leads to a Broadcast
\* if and only if it is a text frame with a non-empty payload; empty text
\* frames and frames that are no text are passed over.
FrameFiltering ==
    /\ \A i \in Broadcasts : mailbox[i].text.kind = "text"
    /\ skipped \subseteq {"empty", "binary"}

\* C18 as amended: a frame leads to a Broadcast(identity, text) if and only if
\* it is a text frame, with an empty payload or not; a frame that is no text
\* is passed over, and the step that passes it over changes nothing else (the
\* handler stays in its inbound loop).
FrameFilteringText ==
    /\ [](/\ \A i \in Broadcasts : /\ mailbox[i].text.kind \in {"text", "empty"}
                                   /\ mailbox[i].text.src = mailbox[i].id
                                   /\ pc[mailbox[i].id] = "sending"
          /\ skipped \subseteq {"binary"})
    /\ [][skipped' # skipped =>
            UNCHANGED <<connVars, roomVars, userVars, chanVars, nstray>>]_vars

\* A text frame with an empty payload waits in the Room's mailbox as a
\* Broadcast of its connection, after a frame that is no text was passed over.
FrameFilteringTextWitness ==
    \E i \in Broadcasts :
        /\ mailbox[i].text.kind = "empty"
        /\ pc[mailbox[i].id] = "sending"
        /\ skipped = {"binary"}

\* C11 (Room decoupled from recipient I/O): with no obligation on the relay
\* of one connection ever to complete a write, the User actor of a recipient
\* can always take the text the Room hands it, the Room finishes the
\* broadcast it is in, every request in its mailbox is taken, and every
\* other connection's relay hands on what that connection is owed.
RoomDecoupled ==
    /\ [](room.st = "await" => ENABLED UserHandle(room.to))
    /\ (room.st # "idle") ~> (room.st = "idle")
    /\ \A c \in Conns : Pending(c) ~> ~Pending(c)
    /\ \A c \in Conns \ {Stalled} : \A n \in 1..MaxFrames :
         (Len(due[c]) >= n) ~> (Len(sink[c]) >= n)

\* The relay of the stalled connection is in a write; meanwhile a second
\* broadcast has been handled to its end (its text waits in the channel) and
\* its sender is back in its inbound loop.
RoomDecoupledWitness ==
    /\ relay[Stalled] = "writing"
    /\ Len(sink[Stalled]) = 1
    /\ Len(queue[Stalled]) = 1
    /\ room.st = "idle"
    /\ mailbox = <<>>
    /\ \E d \in Other(Stalled) : pc[d] = "active" /\ nread[d] = 2

\* C12 (relay write failure absorbed): the step in which a write fails, and
\* the step after it, change nothing but the position of that relay: nothing
\* of the Room, of a handler, of a User actor or of another relay, and
\* neither the channel (no text is put back) nor the sink (no text is written
\* again); after a failed write the relay can always go on, and what it
\* goes on to is the next rx.next().
WriteFailureAbsorbed ==
    /\ [](\A c \in Conns : relay[c] = "failed" => ENABLED RelayLog(c))
    /\ [][\A c \in Conns :
            ((relay[c] = "writing" /\ relay'[c] = "failed")
                 \/ (relay[c] = "failed" /\ relay'[c] # "failed"))
              => /\ relay[c] = "failed" => relay'[c] = "running"
                 /\ \A d \in Other(c) : relay'[d] = relay[d]
                 /\ UNCHANGED <<connVars, roomVars, userVars, queue, sink, enq>>]_vars

\* The write of the first text to a member's sink has failed while the next
\* text waits in its channel; the Room is between two envelopes.
WriteFailureAbsorbedWitness ==
    \E c \in Conns :
        /\ relay[c] = "failed"
        /\ Len(sink[c]) = 1
        /\ Len(queue[c]) = 1
        /\ c \in users
        /\ room.st = "idle"

\* C13 (fatal condition), as the claim states it: once the Room actor has
\* stopped the process terminates: from then on no new connection is taken
\* into service and no task of the process goes on relaying.
FatalCondition ==
    [][room.st = "dead" =>
          /\ \A c \in Conns : pc[c] = "new" => pc'[c] = "new"
          /\ sink' = sink]_vars

\* The connections the broadcast in progress has served or is still to serve.
Served(c) ==
    \/ c \in room.todo \ {room.msg.src}
    \/ c = room.to /\ room.st = "await"
    \/ enq[c] # <<>> /\ enq[c][Len(enq[c])] = room.msg

\* C14 (single-writer serialization): while the Room is in a Broadcast handler
\* (suspended on a recipient or about to go on) no Join and no Leave is
\* handled, the mapping does not change and the envelope at the head of the
\* mailbox stays there; the recipients of the broadcast (served, being
\* served or still to serve) are exactly the members of that one mapping
\* without the sender.
SingleWriter ==
    /\ [](room.st \in {"await", "acked"} =>
             /\ room.msg.src \in users
             /\ \A c \in Conns : Served(c) <=> c \in Recipients(users, room.msg.src))
    /\ [][room.st \in {"await", "acked"} =>
             /\ users' = users
             /\ joinDone' = joinDone
             /\ leaveDone' = leaveDone
             /\ mailbox # <<>> => (mailbox' # <<>> /\ Head(mailbox') = Head(mailbox))]_vars

\* The Room is suspended on one recipient of a broadcast while the Leave of
\* a recipient it has still to serve waits at the head of the mailbox.
SingleWriterWitness ==
    /\ room.st = "await"
    /\ mailbox # <<>>
    /\ Head(mailbox).kind = "leave"
    /\ Head(mailbox).id \in room.todo
    /\ Head(mailbox).id \in users

\* C15 (no stale membership): a connection whose inbound stream has ended is
\* eventually absent from the mapping, and once it is absent it stays so;
\* no handler has returned while its identity is in the mapping; and when
\* every accepted connection has closed and the Room has nothing left to
\* handle, the mapping is empty.
NoStaleMembership ==
    /\ [](\A c \in Conns : pc[c] = "done" => c \notin users)
    /\ []((/\ \A c \in Conns : pc[c] \in {"new", "done"}
            /\ mailbox = <<>>
            /\ room.st = "idle") => users = {})
    /\ [][\A c \in Conns :
            (pc[c] \in {"leaving", "done"} /\ c \notin users) => c \notin users']_vars
    /\ \A c \in Conns : (pc[c] = "leaving") ~> (c \notin users)

\* Two connections were members, both have closed, both handlers have
\* returned and the mapping is empty again.
NoStaleMembershipWitness ==
    /\ users = {}
    /\ Cardinality(joinDone) >= 2
    /\ leaveDone = joinDone
    /\ \A c \in joinDone : pc[c] = "done"
    /\ mailbox = <<>>

\* C16 (Leaving also runs on Join failure), as the claim states it: a handler
\* that has ended after its Join failed has sent its Leave.
LeavingOnJoinFailure ==
    \A c \in Conns :
        (pc[c] \in {"done", "panicked"} /\ c \notin joinDone) => leaveSent[c] = 1

\* C17 (enqueue never fails for a current member): for every identity in the
\* mapping the User actor runs and the receiving half of its channel is
\* open; a receiving half is closed only after the Room handled the Leave of
\* its identity; so no tx.send fails, no User actor panics and the Room is
\* never left with a failed send.
EnqueueNeverFails ==
    /\ \A c \in users : UserRunning(c) /\ RxAlive(c)
    /\ \A c \in Conns : ~RxAlive(c) => c \in leaveDone
    /\ \A c \in Conns : userSt[c] # "panicked"
    /\ room.st \notin {"failed", "dead"}

\* A member's channel has accepted a text while the relay of a connection
\* that left has ended and closed its channel.
EnqueueNeverFailsWitness ==
    \E c \in users : \E d \in Other(c) :
        /\ Len(enq[c]) >= 1
        /\ room.st = "idle"
        /\ d \in leaveDone
        /\ relay[d] = "done"

\* The handlers that await the result of a request to the Room.
Waiting == {c \in Conns : pc[c] \in {"joining", "sending", "leaving"}}

\* A step of the Room, of a User actor or of a handler whose request has been
\* answered.
Progress ==
    \/ RoomJoin \/ RoomLeave \/ RoomBroadcast \/ RoomResume
    \/ \E c \in Conns : UserHandle(c)
    \/ \E c \in Conns : JoinReturn(c) \/ SendReturn(c) \/ LeaveReturn(c)

\* C19 (deadlock freedom): whenever a handler awaits the Room, or the Room is
\* in a handler, one of the Room, the User actor it awaits or an answered
\* handler can take a step; and under fair scheduling every Join, Leave and
\* Broadcast request is handled to its end and its sender goes on.
DeadlockFree ==
    /\ []((Waiting # {} \/ room.st # "idle") => ENABLED Progress)
    /\ \A c \in Conns : (pc[c] = "joining") ~> (pc[c] = "active" /\ c \in joinDone)
    /\ \A c \in Conns : (pc[c] = "sending") ~> (pc[c] = "active" /\ room.msg.src # c)
    /\ \A c \in Conns : (pc[c] = "leaving") ~> (pc[c] = "done" /\ c \in leaveDone)

\* Both handlers wait at once: one for its Broadcast, on which the Room is
\* suspended awaiting the other's User actor, the other for its Leave, which
\* waits in the mailbox behind that Broadcast.
DeadlockFreeWitness ==
    \E c \in Conns : \E d \in Other(c) :
        /\ pc[c] = "sending"
        /\ room.st = "await"
        /\ room.msg.src = c
        /\ room.to = d
        /\ pc[d] = "leaving"
        /\ Pending(d)

\* The requests of connection c the Room has not handled to their end: those
\* in its mailbox and the Broadcast it is in.
Outstanding(c) ==
    LET inBox == {i \in 1..Len(mailbox) : mailbox[i].from = c}
    IN  Cardinality(inBox) + (IF room.st # "idle" /\ room.msg.src = c THEN 1 ELSE 0)

\* C20 (per-connection request order): at most one request of a connection
\* is outstanding, and its handler awaits it; a Join that waits is the
\* connection's first request; a Broadcast that waits or is being handled
\* comes from a member that has sent no Leave; a Leave that waits comes from
\* a member whose Broadcasts have all been handled.
RequestOrder ==
    /\ \A c \in Conns :
          /\ Outstanding(c) <= 1
          /\ Outstanding(c) = 1 =>
                pc[c] \in {"joining", "sending", "leaving"} /\ resp[c] = "none"
    /\ \A i \in 1..Len(mailbox) :
          LET e == mailbox[i]
          IN  /\ e.from = e.id
              /\ e.kind = "join" =>
                    /\ pc[e.id] = "joining"
                    /\ e.id \notin joinDone
                    /\ nread[e.id] = 0 /\ leaveSent[e.id] = 0
              /\ e.kind = "bcast" =>
                    /\ pc[e.id] = "sending"
                    /\ e.id \in users
                    /\ e.text.seq = nread[e.id]
                    /\ leaveSent[e.id] = 0
              /\ e.kind = "leave" =>
                    /\ pc[e.id] = "leaving"
                    /\ e.id \in users
    /\ room.st # "idle" =>
          /\ room.msg.src \in users
          /\ pc[room.msg.src] = "sending"
          /\ room.msg.seq = nread[room.msg.src]

\* The Room is in the second Broadcast of a member while the Leave of the
\* other member waits in its mailbox.
RequestOrderWitness ==
    /\ room.st = "await"
    /\ room.msg.seq = 2
    /\ room.msg.src \in users
    /\ \E i \in 1..Len(mailbox) : mailbox[i].kind = "leave"

====
